---- MODULE Spec2Model ----
(***************************************************************************)
(* Model of lcanalyzer/models.py: the column reducers min_mag, max_mag and *)
(* mean_mag, the per-band aggregator calc_stats and the normaliser         *)
(* normalize_lc, together with the pandas operations they are written in   *)
(* (column selection, Series.min/max/mean, frame minus scalar, Series      *)
(* minus/divided by scalar, fillna, DataFrame.from_records).               *)
(*                                                                         *)
(* Numbers are exact rationals n/d (d > 0, lowest terms): the model checks *)
(* the arithmetic the code asks for, not binary floating-point rounding.   *)
(* Cells of a table are integers or one-letter texts; NaN and the          *)
(* infinities are the values pandas produces for empty reductions and for  *)
(* division by zero.  A call ends in a Result: a value, or the exception   *)
(* class that escaped.                                                     *)
(***************************************************************************)
EXTENDS Integers, Sequences, FiniteSets, TLC

\* ---------------------------------------------------------------- bounds
MaxRows == 2    \* rows of a generated table
MaxVal == 1     \* numeric cells range over -MaxVal..MaxVal
MaxBands == 2   \* length of the bands argument of calc_stats

\* ---------------------------------------------------------------- values
Abs(x) == IF x < 0 THEN 0 - x ELSE x

RECURSIVE Gcd(_, _)
Gcd(x, y) == IF y = 0 THEN x ELSE Gcd(y, x % y)

\* every scalar has the same four fields, so any two can be compared
Val(t, n, d, s) == [t |-> t, n |-> n, d |-> d, s |-> s]

\* the rational n/d, d # 0, in lowest terms with a positive denominator
Rat(n, d) ==
    LET g == Gcd(Abs(n), Abs(d))
        sg == IF d < 0 THEN 0 - 1 ELSE 1
    IN  Val("num", (sg * n) \div g, (sg * d) \div g, "")

Num(x) == Val("num", x, 1, "")
Text(s) == Val("str", 0, 1, s)
NaN == Val("nan", 0, 1, "")
PosInf == Val("inf", 1, 1, "")
NegInf == Val("inf", 0 - 1, 1, "")
None == Val("none", 0, 1, "")

IsNum(v) == v.t = "num"
IsText(v) == v.t = "str"

\* code point of the one-letter texts of the model (Python orders str by it)
Ord(s) ==
    CASE s = "a" -> 97
      [] s = "b" -> 98
      [] s = "g" -> 103
      [] s = "r" -> 114
      [] OTHER -> 0

\* Python's x < y on two numbers or on two texts (a column never mixes the two)
Lt(x, y) ==
    IF IsText(x) /\ IsText(y) THEN Ord(x.s) < Ord(y.s)
    ELSE x.n * y.d < y.n * x.d

\* ---------------------------------------------------------------- results
Ok(v) == [exc |-> "none", val |-> v]
Raise(e) == [exc |-> e, val |-> None]
Raised(r) == r.exc # "none"

\* ---------------------------------------------------------------- scalars
\* x - y: numbers subtract, NaN propagates, text refuses the operator
SubInPython(x, y) ==
    IF IsText(x) \/ IsText(y) THEN Raise("TypeError")
    ELSE IF x.t = "nan" \/ y.t = "nan" THEN Ok(NaN)
    ELSE Ok(Rat(x.n * y.d - y.n * x.d, x.d * y.d))

\* x / y as pandas divides: 0/0 is NaN, x/0 is +-inf, NaN propagates
DivInPandas(x, y) ==
    IF IsText(x) \/ IsText(y) THEN Raise("TypeError")
    ELSE IF x.t = "nan" \/ y.t = "nan" THEN Ok(NaN)
    ELSE IF y.n = 0 THEN
        (IF x.n = 0 THEN Ok(NaN) ELSE IF x.n > 0 THEN Ok(PosInf) ELSE Ok(NegInf))
    ELSE Ok(Rat(x.n * y.d, x.d * y.n))

\* ---------------------------------------------------------------- series
\* a Series is the sequence of the cells of one column, in row order
IsNumeric(col) == \A k \in 1..Len(col) : IsNum(col[k])
IsTextual(col) == Len(col) > 0 /\ \A k \in 1..Len(col) : IsText(col[k])

RECURSIVE FoldMax(_, _)
FoldMax(col, acc) ==
    IF col = <<>> THEN acc
    ELSE FoldMax(Tail(col), IF Lt(acc, Head(col)) THEN Head(col) ELSE acc)

RECURSIVE FoldMin(_, _)
FoldMin(col, acc) ==
    IF col = <<>> THEN acc
    ELSE FoldMin(Tail(col), IF Lt(Head(col), acc) THEN Head(col) ELSE acc)

RECURSIVE FoldSum(_, _)
FoldSum(col, acc) ==
    IF col = <<>> THEN acc
    ELSE FoldSum(Tail(col), acc + Head(col).n)

SeriesMaxSkipsLastRow(col) ==
    IF col = <<>> THEN Ok(NaN) ELSE Ok(FoldMax(SubSeq(col, 2, Len(col) - 1), Head(col)))

\* Series.max(): NaN for an empty series, else the greatest cell
SeriesMax(col) == IF col = <<>> THEN Ok(NaN) ELSE Ok(FoldMax(Tail(col), Head(col)))

\* Series.min(): NaN for an empty series, else the least cell
SeriesMin(col) == IF col = <<>> THEN Ok(NaN) ELSE Ok(FoldMin(Tail(col), Head(col)))

SeriesMeanSkipsFirstRow(col) ==
    IF col = <<>> THEN Ok(NaN)
    ELSE IF ~IsNumeric(col) THEN Raise("TypeError")
    ELSE Ok(Rat(FoldSum(Tail(col), 0), Len(col)))

SeriesMeanTextAsZero(col) ==
    IF col = <<>> THEN Ok(NaN)
    ELSE Ok(Rat(FoldSum(col, 0), Len(col)))

SeriesMeanUndivided(col) ==
    IF col = <<>> THEN Ok(NaN)
    ELSE IF ~IsNumeric(col) THEN Raise("TypeError")
    ELSE Ok(Rat(FoldSum(col, 0), 1))

\* Series.mean(): NaN for an empty series, TypeError for text, else sum/count
SeriesMean(col) ==
    IF col = <<>> THEN Ok(NaN)
    ELSE IF ~IsNumeric(col) THEN Raise("TypeError")
    ELSE Ok(Rat(FoldSum(col, 0), Len(col)))

\* series - scalar, elementwise; the first refusal escapes
SeriesSub(col, s) ==
    IF \E k \in 1..Len(col) : Raised(SubInPython(col[k], s)) THEN Raise("TypeError")
    ELSE Ok([k \in 1..Len(col) |-> SubInPython(col[k], s).val])

\* series / scalar, elementwise
SeriesDiv(col, s) ==
    IF \E k \in 1..Len(col) : Raised(DivInPandas(col[k], s)) THEN Raise("TypeError")
    ELSE Ok([k \in 1..Len(col) |-> DivInPandas(col[k], s).val])

\* Series.fillna(v): NaN cells become v, the others stay
Fillna(col, v) == [k \in 1..Len(col) |-> IF col[k].t = "nan" THEN v ELSE col[k]]

\* ---------------------------------------------------------------- frames
\* a DataFrame: its columns by name; a raw str passed in place of one has none
Frame(cols) == [kind |-> "frame", cols |-> cols]
RawString == [kind |-> "str", cols |-> [c \in {} |-> <<>>]]

NRows(data) == IF DOMAIN data.cols = {} THEN 0
               ELSE Len(data.cols[CHOOSE c \in DOMAIN data.cols : TRUE])

\* data[mag_col]: a str refuses a str index, a frame refuses an unknown label
Getitem(data, mag_col) ==
    IF data.kind = "str" THEN Raise("TypeError")
    ELSE IF mag_col \notin DOMAIN data.cols THEN Raise("KeyError")
    ELSE Ok(data.cols[mag_col])

\* df - s: a new frame with s subtracted from every cell of every column;
\* self is the operand after the operation (the binary operator leaves it alone)
FrameSubInPlace(df, s) ==
    IF \E c \in DOMAIN df.cols : Raised(SeriesSub(df.cols[c], s))
    THEN [exc |-> "TypeError", val |-> None, self |-> df]
    ELSE LET out == Frame([c \in DOMAIN df.cols |-> SeriesSub(df.cols[c], s).val])
         IN  [exc |-> "none", val |-> out, self |-> out]

FrameSubNoShift(df, s) ==
    IF \E c \in DOMAIN df.cols : Raised(SeriesSub(df.cols[c], s))
    THEN [exc |-> "TypeError", val |-> None, self |-> df]
    ELSE [exc |-> "none", val |-> df, self |-> df]

FrameSubNumericOnly(df, s) ==
    [exc |-> "none",
     val |-> Frame([c \in DOMAIN df.cols |->
                      IF Raised(SeriesSub(df.cols[c], s)) THEN df.cols[c]
                      ELSE SeriesSub(df.cols[c], s).val]),
     self |-> df]

FrameSub(df, s) ==
    IF \E c \in DOMAIN df.cols : Raised(SeriesSub(df.cols[c], s))
    THEN [exc |-> "TypeError", val |-> None, self |-> df]
    ELSE [exc |-> "none",
          val |-> Frame([c \in DOMAIN df.cols |-> SeriesSub(df.cols[c], s).val]),
          self |-> df]

\* ---------------------------------------------------------------- reducers
mean_mag(data, mag_col) ==
    LET col == Getitem(data, mag_col)
    IN  IF Raised(col) THEN col ELSE SeriesMean(col.val)

max_mag(data, mag_col) ==
    LET col == Getitem(data, mag_col)
    IN  IF Raised(col) THEN col ELSE SeriesMax(col.val)

min_mag(data, mag_col) ==
    LET col == Getitem(data, mag_col)
    IN  IF Raised(col) THEN col ELSE SeriesMin(col.val)

\* ---------------------------------------------------------------- calc_stats
stat_swapped(lc, b, mag_col) ==
    IF b \notin DOMAIN lc THEN Raise("KeyError")
    ELSE LET mx == max_mag(lc[b], mag_col)
             mn == mean_mag(lc[b], mag_col)
             mi == min_mag(lc[b], mag_col)
         IN  IF Raised(mx) THEN mx
             ELSE IF Raised(mn) THEN mn
             ELSE IF Raised(mi) THEN mi
             ELSE Ok([max |-> mi.val, mean |-> mn.val, min |-> mx.val])

stat_missing_band_skipped(lc, b, mag_col) ==
    IF b \notin DOMAIN lc THEN Ok([max |-> NaN, mean |-> NaN, min |-> NaN])
    ELSE LET mx == max_mag(lc[b], mag_col)
             mn == mean_mag(lc[b], mag_col)
             mi == min_mag(lc[b], mag_col)
         IN  IF Raised(mx) THEN mx
             ELSE IF Raised(mn) THEN mn
             ELSE IF Raised(mi) THEN mi
             ELSE Ok([max |-> mx.val, mean |-> mn.val, min |-> mi.val])

\* one pass of the loop body up to the dict stat: lc[b] is looked up first,
\* then max, mean and min are taken in that order; the first exception escapes
stat(lc, b, mag_col) ==
    IF b \notin DOMAIN lc THEN Raise("KeyError")
    ELSE LET mx == max_mag(lc[b], mag_col)
             mn == mean_mag(lc[b], mag_col)
             mi == min_mag(lc[b], mag_col)
         IN  IF Raised(mx) THEN mx
             ELSE IF Raised(mn) THEN mn
             ELSE IF Raised(mi) THEN mi
             ELSE Ok([max |-> mx.val, mean |-> mn.val, min |-> mi.val])

\* stats[b] = stat
SetItem(stats, b, st) ==
    [x \in DOMAIN stats \cup {b} |-> IF x = b THEN st ELSE stats[x]]

\* sorted(keys): ascending by code point
RECURSIVE Sorted(_)
Sorted(S) ==
    IF S = {} THEN <<>>
    ELSE LET lo == CHOOSE x \in S : \A y \in S : Ord(x) <= Ord(y)
         IN  <<lo>> \o Sorted(S \ {lo})

\* pd.DataFrame.from_records(stats) for a dict of dicts: one column per key of
\* stats (sorted), one row per inner key, a missing inner key filled with NaN
from_records(stats) ==
    [columns |-> Sorted(DOMAIN stats),
     index |-> IF DOMAIN stats = {} THEN {} ELSE UNION {DOMAIN stats[b] : b \in DOMAIN stats},
     data |-> [b \in DOMAIN stats |->
                 [k \in UNION {DOMAIN stats[x] : x \in DOMAIN stats} |->
                     IF k \in DOMAIN stats[b] THEN stats[b][k] ELSE NaN]]]

\* ---------------------------------------------------------------- inputs
ColNames == {"a", "b"}
BandNames == {"g", "r"}
NumCells == {Num(x) : x \in (0 - MaxVal)..MaxVal}
MagCells == {Num(x) : x \in 0..MaxVal}
TextCells == {Text("g"), Text("r")}

\* a column holds numbers only or text only; the texts are band letters, which
\* do not spell a number
Columns(n) == [1..n -> NumCells] \cup [1..n -> TextCells]
Frames ==
    UNION {{Frame([a |-> ca, b |-> cb]) : ca \in Columns(n), cb \in Columns(n)} :
           n \in 0..MaxRows}

\* the tables of tests/test_models.py
NumCol(s) == [k \in 1..Len(s) |-> Num(s[k])]
TestFrame1 == Frame([a |-> NumCol(<<1, 7, 3>>), b |-> NumCol(<<5, 8, 4>>),
                     c |-> NumCol(<<3, 9, 1>>)])
TestFrame0 == Frame([a |-> NumCol(<<0, 0, 0>>), b |-> NumCol(<<0, 0, 0>>),
                     c |-> NumCol(<<0, 0, 0>>)])
TestFrameNeg == Frame([a |-> NumCol(<<0 - 7, 0 - 4, 0 - 1>>),
                       b |-> NumCol(<<0 - 7, 0 - 3, 0 - 5>>),
                       c |-> NumCol(<<0 - 3, 0 - 1, 0 - 3>>)])
TestFrames == {TestFrame1, TestFrame0, TestFrameNeg}

\* the sub-table of one band: a single column "a" of non-negative magnitudes
\* (or of text), so that mag_col = "b" names a column the sub-table lacks
BandFrames ==
    UNION {{Frame([a |-> ca]) : ca \in [1..n -> MagCells] \cup [1..n -> TextCells]} :
           n \in 0..MaxRows}
LcMaps == UNION {[K -> BandFrames] : K \in SUBSET BandNames}
BandSeqs == UNION {[1..n -> BandNames] : n \in 0..MaxBands}

NoFrame == [kind |-> "none", cols |-> [c \in {} |-> <<>>]]
NoLc == [b \in {} |-> NoFrame]
NoStats == [b \in {} |-> None]
TableOps == {"min_mag", "max_mag", "mean_mag", "normalize_lc"}

\* ---------------------------------------------------------------- state
VARIABLES op, pc, df, mag_col, lc, bands, result, min, max, shifted, nlc, stats, i

vars == <<op, pc, df, mag_col, lc, bands, result, min, max, shifted, nlc, stats, i>>
args == <<op, mag_col, lc, bands>>
norm_locals == <<min, max, shifted, nlc>>
stats_locals == <<stats, i>>

\* one call of one function of the module on one input
Init ==
    /\ pc = "start"
    /\ result = Ok(None)
    /\ min = None /\ max = None /\ shifted = NoFrame /\ nlc = <<>>
    /\ stats = NoStats /\ i = 1
    /\ mag_col \in ColNames
    /\ \/ /\ op \in TableOps
          /\ df \in Frames \cup TestFrames \cup {RawString}
          /\ lc = NoLc /\ bands = <<>>
       \/ /\ op = "calc_stats"
          /\ df = NoFrame
          /\ lc \in LcMaps /\ bands \in BandSeqs

Return(r) == result' = r /\ pc' = "done"

MeanMag ==
    /\ pc = "start" /\ op = "mean_mag"
    /\ Return(mean_mag(df, mag_col))
    /\ UNCHANGED <<args, df, norm_locals, stats_locals>>

MaxMag ==
    /\ pc = "start" /\ op = "max_mag"
    /\ Return(max_mag(df, mag_col))
    /\ UNCHANGED <<args, df, norm_locals, stats_locals>>

MinMag ==
    /\ pc = "start" /\ op = "min_mag"
    /\ Return(min_mag(df, mag_col))
    /\ UNCHANGED <<args, df, norm_locals, stats_locals>>

\* stats = {}
CalcStatsEnter ==
    /\ pc = "start" /\ op = "calc_stats"
    /\ stats' = NoStats /\ i' = 1
    /\ pc' = "for"
    /\ UNCHANGED <<args, df, result, norm_locals>>

\* one pass of "for b in bands": an exception leaves the function at once
CalcStatsBand ==
    /\ pc = "for" /\ i <= Len(bands)
    /\ LET st == stat(lc, bands[i], mag_col)
       IN  IF Raised(st)
           THEN Return(Raise(st.exc)) /\ UNCHANGED stats_locals
           ELSE /\ stats' = SetItem(stats, bands[i], st.val)
                /\ i' = i + 1
                /\ UNCHANGED <<pc, result>>
    /\ UNCHANGED <<args, df, norm_locals>>

\* return pd.DataFrame.from_records(stats)
CalcStatsReturn ==
    /\ pc = "for" /\ i > Len(bands)
    /\ Return(Ok(from_records(stats)))
    /\ UNCHANGED <<args, df, norm_locals, stats_locals>>

\* min = min_mag(df, mag_col)
NormalizeMin ==
    /\ pc = "start" /\ op = "normalize_lc"
    /\ LET r == min_mag(df, mag_col)
       IN  IF Raised(r)
           THEN Return(r) /\ UNCHANGED min
           ELSE min' = r.val /\ pc' = "max" /\ UNCHANGED result
    /\ UNCHANGED <<args, df, max, shifted, nlc, stats_locals>>

\* max = max_mag((df - min), mag_col)
NormalizeMax ==
    /\ pc = "max"
    /\ LET s == FrameSub(df, min)
           r == max_mag(s.val, mag_col)
       IN  /\ df' = s.self
           /\ IF Raised(s)
              THEN Return(Raise(s.exc)) /\ UNCHANGED <<shifted, max>>
              ELSE /\ shifted' = s.val
                   /\ IF Raised(r)
                      THEN Return(r) /\ UNCHANGED max
                      ELSE max' = r.val /\ pc' = "scale" /\ UNCHANGED result
    /\ UNCHANGED <<args, min, nlc, stats_locals>>

\* lc = (df[mag_col] - min) / max
NormalizeScale ==
    /\ pc = "scale"
    /\ LET col == Getitem(df, mag_col)
           num == IF Raised(col) THEN col ELSE SeriesSub(col.val, min)
           quo == IF Raised(num) THEN num ELSE SeriesDiv(num.val, max)
       IN  IF Raised(quo)
           THEN Return(Raise(quo.exc)) /\ UNCHANGED nlc
           ELSE nlc' = quo.val /\ pc' = "fillna" /\ UNCHANGED result
    /\ UNCHANGED <<args, df, min, max, shifted, stats_locals>>

\* lc = lc.fillna(0); return lc
NormalizeFillna ==
    /\ pc = "fillna"
    /\ nlc' = Fillna(nlc, Num(0))
    /\ Return(Ok(Fillna(nlc, Num(0))))
    /\ UNCHANGED <<args, df, min, max, shifted, stats_locals>>

Next ==
    \/ MeanMag \/ MaxMag \/ MinMag
    \/ CalcStatsEnter \/ CalcStatsBand \/ CalcStatsReturn
    \/ NormalizeMin \/ NormalizeMax \/ NormalizeScale \/ NormalizeFillna

Spec == Init /\ [][Next]_vars

\* ---------------------------------------------------------------- properties
Range(s) == {s[k] : k \in 1..Len(s)}
Done(f) == pc = "done" /\ op = f

\* the argument is a table that has the column mag_col
HasColumn == df.kind = "frame" /\ mag_col \in DOMAIN df.cols
\* ... with at least one row and numbers only in that column
NumericInput == HasColumn /\ NRows(df) >= 1 /\ IsNumeric(df.cols[mag_col])
\* ... with at least one row and text only in that column
TextInput == HasColumn /\ IsTextual(df.cols[mag_col])

\* the integers of a numeric column, its greatest, its least, its sum
Ints(col) == {col[k].n : k \in 1..Len(col)}
Greatest(col) == CHOOSE x \in Ints(col) : \A y \in Ints(col) : y <= x
Least(col) == CHOOSE x \in Ints(col) : \A y \in Ints(col) : x <= y
RECURSIVE SumTo(_, _)
SumTo(col, k) == IF k = 0 THEN 0 ELSE col[k].n + SumTo(col, k - 1)

\* Python's x <= y on two floats: false as soon as one of them is NaN
PyLe(x, y) == IsNum(x) /\ IsNum(y) /\ x.n * y.d <= y.n * x.d

\* C1: on a table with at least one row and a numeric column, max_mag returns
\* the greatest cell of the column and min_mag the least, over every row,
\* whatever the signs.
C1_MaxMinOverEveryRow ==
    (pc = "done" /\ op \in {"max_mag", "min_mag"} /\ NumericInput) =>
        /\ result.exc = "none"
        /\ IsNum(result.val) /\ result.val.d = 1
        /\ result.val.n \in Ints(df.cols[mag_col])
        /\ \A k \in 1..NRows(df) :
              IF op = "max_mag" THEN df.cols[mag_col][k].n <= result.val.n
              ELSE result.val.n <= df.cols[mag_col][k].n

C1_Witness ==
    /\ Done("min_mag") /\ df = TestFrameNeg /\ mag_col = "b"
    /\ result = Ok(Num(0 - 7))

\* C2: on a table with at least one row and a numeric column, mean_mag
\* returns the sum of the column over all rows divided by the number of rows.
C2_MeanIsSumOverRows ==
    (Done("mean_mag") /\ NumericInput) =>
        /\ result.exc = "none"
        /\ IsNum(result.val) /\ result.val.d > 0
        /\ result.val.n * NRows(df) = result.val.d * SumTo(df.cols[mag_col], NRows(df))

C2_Witness ==
    /\ Done("mean_mag") /\ df = TestFrame1 /\ mag_col = "a"
    /\ result.val.n = 11 /\ result.val.d = 3

BandsNumeric ==
    \A k \in 1..Len(bands) :
        /\ bands[k] \in DOMAIN lc
        /\ mag_col \in DOMAIN lc[bands[k]].cols
        /\ IsNumeric(lc[bands[k]].cols[mag_col])

\* C5: when every name of bands is a key of lc and the magnitude column is
\* numeric, calc_stats returns one entry per band name of bands, and the entry
\* of band b maps max, mean and min to max_mag, mean_mag and min_mag of lc[b].
C5_OneEntryPerBand ==
    (Done("calc_stats") /\ BandsNumeric) =>
        /\ result.exc = "none"
        /\ Range(result.val.columns) = Range(bands)
        /\ Len(result.val.columns) = Cardinality(Range(bands))
        /\ DOMAIN result.val.data = Range(bands)
        /\ \A b \in Range(bands) :
              /\ DOMAIN result.val.data[b] = {"max", "mean", "min"}
              /\ result.val.data[b]["max"] = max_mag(lc[b], mag_col).val
              /\ result.val.data[b]["mean"] = mean_mag(lc[b], mag_col).val
              /\ result.val.data[b]["min"] = min_mag(lc[b], mag_col).val

C5_Witness ==
    /\ Done("calc_stats") /\ BandsNumeric
    /\ Range(bands) = {"g", "r"}
    /\ result.exc = "none"
    /\ result.val.data["g"] # result.val.data["r"]
    /\ Lt(result.val.data["g"]["min"], result.val.data["g"]["mean"])
    /\ Lt(result.val.data["g"]["mean"], result.val.data["g"]["max"])

\* positions of bands at which the loop body raises, and what it raises there
Missing(k) == bands[k] \notin DOMAIN lc
TextBand(k) ==
    /\ bands[k] \in DOMAIN lc
    /\ mag_col \in DOMAIN lc[bands[k]].cols
    /\ IsTextual(lc[bands[k]].cols[mag_col])
Fails(k) ==
    \/ Missing(k)
    \/ mag_col \notin DOMAIN lc[bands[k]].cols
    \/ IsTextual(lc[bands[k]].cols[mag_col])
FirstFailure == CHOOSE k \in 1..Len(bands) : Fails(k) /\ \A j \in 1..(k - 1) : ~Fails(j)

\* C6 as stated: calc_stats raises KeyError whenever a name of bands is not
\* a key of lc, and returns no partial result.
C6_MissingBandIsKeyError ==
    (Done("calc_stats") /\ \E k \in 1..Len(bands) : Missing(k)) =>
        result = Raise("KeyError")

\* C6 amended: whenever a name of bands is not a key of lc, calc_stats raises
\* and returns no partial result; the exception is KeyError, unless a band
\* that comes earlier in bands holds text in the magnitude column, in which
\* case the TypeError of mean_mag on that band escapes first.
C6_MissingBandRaises ==
    (Done("calc_stats") /\ \E k \in 1..Len(bands) : Missing(k)) =>
        /\ result.val = None
        /\ result.exc = IF TextBand(FirstFailure) THEN "TypeError" ELSE "KeyError"
        /\ TextBand(FirstFailure) => \E k \in (FirstFailure + 1)..Len(bands) : Missing(k)

C6_Witness ==
    /\ Done("calc_stats")
    /\ Len(bands) = 2 /\ ~Missing(1) /\ Missing(2)
    /\ DOMAIN stats = {bands[1]}
    /\ result = Raise("KeyError")

\* C7: on a table with at least one row whose magnitude column holds one
\* number in every row, normalize_lc returns one 0.0 per row.
C7_ConstantColumnGivesZeros ==
    (Done("normalize_lc") /\ NumericInput
        /\ Cardinality(Ints(df.cols[mag_col])) = 1) =>
        /\ result.exc = "none"
        /\ Len(result.val) = NRows(df)
        /\ \A k \in 1..NRows(df) : result.val[k] = Num(0)

\* C8: no function of the module changes the table, or the band sub-tables,
\* it was called with, whether it returns or raises.
C8_InputsNotMutated == [][df' = df /\ lc' = lc]_vars

C8_Witness ==
    /\ op = "normalize_lc" /\ pc = "scale"
    /\ NRows(df) >= 1
    /\ shifted.kind = "frame" /\ shifted # df

\* every column of the table holds numbers only
AllNumeric == \A c \in DOMAIN df.cols : IsNumeric(df.cols[c])
SomeText == \E c \in DOMAIN df.cols : \E k \in 1..Len(df.cols[c]) : IsText(df.cols[c][k])

\* C9: on an all-numeric table whose magnitude column has two distinct values,
\* the denominator max(column - min) equals max(column) - min(column), element
\* i of the result is (x_i - min) / (max - min), it lies in [0, 1], a row at the
\* minimum gives 0, a row at the maximum gives 1, one element per row in order.
C9_NormalizedByRange ==
    (op = "normalize_lc" /\ HasColumn /\ AllNumeric
        /\ Cardinality(Ints(df.cols[mag_col])) >= 2) =>
        LET col == df.cols[mag_col]
            lo == Least(col)
            hi == Greatest(col)
        IN  /\ pc \in {"scale", "fillna", "done"} => max = Num(hi - lo)
            /\ pc = "done" =>
                  /\ result.exc = "none"
                  /\ Len(result.val) = Len(col)
                  /\ \A k \in 1..Len(col) :
                        /\ IsNum(result.val[k]) /\ result.val[k].d > 0
                        /\ result.val[k].n * (hi - lo) = result.val[k].d * (col[k].n - lo)
                        /\ 0 <= result.val[k].n /\ result.val[k].n <= result.val[k].d
                        /\ col[k].n = lo => result.val[k] = Num(0)
                        /\ col[k].n = hi => result.val[k] = Num(1)

C9_Witness ==
    /\ Done("normalize_lc") /\ NumericInput /\ AllNumeric
    /\ Least(df.cols[mag_col]) # 0
    /\ \E k \in 1..Len(result.val) :
          0 < result.val[k].n /\ result.val[k].n < result.val[k].d

\* C10: normalize_lc raises TypeError whenever any column of the table holds
\* text, also when the magnitude column is numeric; it returns a sequence
\* only when every column is numeric.
C10_AnyTextColumnRaises ==
    (Done("normalize_lc") /\ HasColumn) =>
        /\ SomeText => result = Raise("TypeError")
        /\ result.exc = "none" => AllNumeric

C10_Witness ==
    /\ Done("normalize_lc") /\ NumericInput
    /\ \E c \in DOMAIN df.cols : IsTextual(df.cols[c])
    /\ result = Raise("TypeError")

====
